---- MODULE Spec2Model ----
(***************************************************************************)
(* Prompt Mirror: the rule-based analyzer (logic.py analyze_prompt), the   *)
(* templated rewriter (logic.py rewrite_prompt), the validation gate       *)
(* (schema.py validate_or_fallback) and the /analyze request handler       *)
(* (app.py analyze).                                                       *)
(*                                                                         *)
(* Texts are TLA+ strings; TLC treats a string as the sequence of its      *)
(* characters (Len, SubSeq, \o), so the regular expressions and the        *)
(* substring tests of the code are evaluated character by character.       *)
(***************************************************************************)
EXTENDS Integers, Sequences, FiniteSets, TLC

\* Python's None. TLC compares only values of one kind, so None is written as a
\* record where a dict is expected and as the string NoneStr where a str is.
None == [none |-> TRUE]
NoneStr == "<None>"

\* ------------------------------------------------------------ characters

Ch(s, i) == SubSeq(s, i, i)

CharsOf(s) == {Ch(s, i) : i \in 1..Len(s)}

LowerLetters == "abcdefghijklmnopqrstuvwxyz"
UpperLetters == "ABCDEFGHIJKLMNOPQRSTUVWXYZ"
Digits == CharsOf("0123456789")
Letters == CharsOf(LowerLetters) \cup CharsOf(UpperLetters)
\* the regular expression classes \w and \s
WordChars == Letters \cup Digits \cup {"_"}
SpaceChars == {" ", "\t", "\n", "\r", "\f"}

\* str.lower() of one character
ToLower == [c \in CharsOf(UpperLetters) |->
              Ch(LowerLetters, CHOOSE i \in 1..Len(UpperLetters) : Ch(UpperLetters, i) = c)]

LowerCh(c) == IF c \in DOMAIN ToLower THEN ToLower[c] ELSE c

\* str.lower(), by halves so that the recursion stays shallow
RECURSIVE Lower(_)
Lower(s) ==
    IF Len(s) = 0 THEN ""
    ELSE IF Len(s) = 1 THEN LowerCh(s)
    ELSE LET h == Len(s) \div 2
         IN  Lower(SubSeq(s, 1, h)) \o Lower(SubSeq(s, h + 1, Len(s)))

\* str.strip()
RECURSIVE LStrip(_)
LStrip(s) == IF Len(s) > 0 /\ Ch(s, 1) \in SpaceChars THEN LStrip(SubSeq(s, 2, Len(s))) ELSE s

RECURSIVE RStrip(_)
RStrip(s) ==
    IF Len(s) > 0 /\ Ch(s, Len(s)) \in SpaceChars THEN RStrip(SubSeq(s, 1, Len(s) - 1)) ELSE s

Strip(s) == LStrip(RStrip(s))

\* `sub in s` of Python, and re.search of an escaped literal
MatchAt(s, t, i) == i >= 1 /\ i + Len(t) - 1 <= Len(s) /\ SubSeq(s, i, i + Len(t) - 1) = t

Contains(s, t) == \E i \in 1..(Len(s) - Len(t) + 1) : MatchAt(s, t, i)

\* \b between s[i-1] and s[i]
IsWordAt(s, k) == k >= 1 /\ k <= Len(s) /\ Ch(s, k) \in WordChars

WordBoundary(s, i) == IsWordAt(s, i - 1) # IsWordAt(s, i)

AllIn(s, from, to, class) == \A k \in from..to : Ch(s, k) \in class

\* the index of the last character of the run of `class` that starts at k
\* (k - 1 when s[k] is not in the class)
RunEnd(s, k, class) ==
    IF \A j \in k..Len(s) : Ch(s, j) \in class THEN Len(s)
    ELSE (CHOOSE j \in k..Len(s) :
            Ch(s, j) \notin class /\ \A m \in k..(j - 1) : Ch(s, m) \in class) - 1

\* re.search of an alternation of literals, with \b before (lb) and after (rb)
SearchLits(s, lits, lb, rb) ==
    \E t \in lits : \E i \in 1..(Len(s) - Len(t) + 1) :
        /\ MatchAt(s, t, i)
        /\ lb => WordBoundary(s, i)
        /\ rb => WordBoundary(s, i + Len(t))

Max(a, b) == IF a >= b THEN a ELSE b
Min(a, b) == IF a <= b THEN a ELSE b
SetMin(S) == CHOOSE x \in S : \A y \in S : x <= y

\* ------------------------------------------------- structural patterns

\* ROLE_PATTERN, re.IGNORECASE
ROLE_PATTERN(text) == SearchLits(Lower(text), {"you are", "act as"}, TRUE, TRUE)

TaskVerbs ==
    {"write", "draft", "plan", "create", "design", "develop", "compare", "summarize",
     "analyze", "build", "outline", "generate", "evaluate", "produce", "compose", "audit",
     "assess"}

\* TASK_PATTERN: ^\s* then a verb then \b (no MULTILINE: ^ is the start of the text)
TASK_PATTERN(text) ==
    LET s == Lower(text)
    IN  \E k \in 0..Len(s) : \E v \in TaskVerbs :
            /\ AllIn(s, 1, k, SpaceChars)
            /\ MatchAt(s, v, k + 1)
            /\ WordBoundary(s, k + 1 + Len(v))

INPUT_PATTERN(text) ==
    SearchLits(Lower(text),
               {"given", "using", "with this", "with the", "based on", "provided",
                "attached", "from"}, TRUE, TRUE)

CONSTRAINT_PATTERN(text) ==
    SearchLits(Lower(text),
               {"constraint", "constraints", "assume", "exclude", "limit", "deadline",
                "budget", "must", "exactly", "at least", "no more than"}, FALSE, FALSE)

\* \b\d+(?:\.\d+)?\b
NumberPattern(text) ==
    \E i \in 1..Len(text) :
        /\ WordBoundary(text, i)
        /\ Ch(text, i) \in Digits
        /\ \E j \in i..RunEnd(text, i, Digits) :
              \/ WordBoundary(text, j + 1)
              \/ /\ MatchAt(text, ".", j + 1)
                 /\ \E k \in (j + 2)..Len(text) :
                       AllIn(text, j + 2, k, Digits) /\ WordBoundary(text, k + 1)

_has_constraints(text) == IF NumberPattern(text) THEN TRUE ELSE CONSTRAINT_PATTERN(text)

FormatVerbs == {"output", "return", "respond", "deliver", "format", "present", "provide"}
FormatNouns == {"json", "table", "markdown", "bullet", "bullets", "list", "outline", "chart"}

\* \b(verb)\b.*\b(noun)\b with DOTALL: a verb, then a noun anywhere after its end
FORMAT_PATTERN(text) ==
    LET s == Lower(text)
    IN  \E v \in FormatVerbs : \E i \in 1..(Len(s) - Len(v) + 1) :
            /\ MatchAt(s, v, i)
            /\ WordBoundary(s, i)
            /\ WordBoundary(s, i + Len(v))
            /\ \E n \in FormatNouns : \E j \in (i + Len(v))..(Len(s) - Len(n) + 1) :
                  /\ MatchAt(s, n, j)
                  /\ WordBoundary(s, j)
                  /\ WordBoundary(s, j + Len(n))

EXAMPLE_PATTERN(text) ==
    SearchLits(Lower(text), {"example", "for instance", "eg:", "e.g."}, TRUE, FALSE)

\* step\s*\d+ between two \b
StepNumber(s) ==
    \E i \in 1..(Len(s) - 4) :
        /\ WordBoundary(s, i)
        /\ MatchAt(s, "step", i)
        /\ \E j \in (i + 4)..(RunEnd(s, i + 4, SpaceChars) + 1) :
              /\ j <= Len(s)
              /\ Ch(s, j) \in Digits
              /\ \E k \in j..RunEnd(s, j, Digits) : WordBoundary(s, k + 1)

STEPS_PATTERN(text) ==
    LET s == Lower(text)
    IN  \/ StepNumber(s)
        \/ SearchLits(s, {"steps", "process", "first", "second", "third", "then", "next",
                          "finally"}, TRUE, TRUE)

SUCCESS_PATTERN(text) ==
    SearchLits(Lower(text),
               {"success", "success criteria", "success when", "acceptance",
                "definition of done", "done when", "complete when"}, TRUE, TRUE)

\* ---------------------------------------------------------- vocabularies

AMBIGUOUS_TERMS ==
    <<"help me with", "help", "assist", "optimize", "improve", "better", "robust",
      "flexible", "scalable", "easy", "efficient", "modern", "as needed", "user friendly",
      "marketing plan", "strategy", "nice">>

VAGUE_QUANTIFIERS ==
    <<"some", "many", "several", "few", "often", "quickly", "regularly", "usually",
      "sometimes", "various", "numerous", "couple", "handful", "soon", "asap">>

Range(seq) == {seq[i] : i \in 1..Len(seq)}


Reverse(seq) == [i \in 1..Len(seq) |-> seq[Len(seq) + 1 - i]]

\* the characters of the vocabulary terms and of identifiers in code point order, for
\* the comparison of str values
Ascii == " -0123456789" \o UpperLetters \o "_" \o LowerLetters

Ord == [c \in CharsOf(Ascii) |-> CHOOSE i \in 1..Len(Ascii) : Ch(Ascii, i) = c]

\* a < b for two str values
RECURSIVE StrLess(_, _)
StrLess(a, b) ==
    IF Len(b) = 0 THEN FALSE
    ELSE IF Len(a) = 0 THEN TRUE
    ELSE IF Ch(a, 1) = Ch(b, 1) THEN StrLess(SubSeq(a, 2, Len(a)), SubSeq(b, 2, Len(b)))
    ELSE Ord[Ch(a, 1)] < Ord[Ch(b, 1)]

\* sorted() of a collection of distinct str values
RECURSIVE SortedSet(_)
SortedSet(S) ==
    IF S = {} THEN <<>>
    ELSE LET m == CHOOSE x \in S : \A y \in S \ {x} : StrLess(x, y)
         IN  <<m>> \o SortedSet(S \ {m})

\* sorted() of a list without duplicates
sorted(seq) == SortedSet(Range(seq))

\* sorted(..., key=len, reverse=True) is stable: among terms of one length the
\* order of the input is kept
RECURSIVE ByLenDesc(_, _)
ByLenDesc(seq, n) ==
    IF n = 0 THEN <<>>
    ELSE SelectSeq(seq, LAMBDA t : Len(t) = n) \o ByLenDesc(seq, n - 1)

SortByLenDesc(seq) ==
    IF seq = <<>> THEN <<>>
    ELSE ByLenDesc(seq, CHOOSE n \in {Len(seq[i]) : i \in 1..Len(seq)} :
                            \A i \in 1..Len(seq) : Len(seq[i]) <= n)

\* The iteration order of set(term_list) depends on the hash seed of the process.
\* Two orders stand for it: the order of the list and its reverse.
HashOrders == {"listed", "reversed"}

SetOrder(term_list, h) == IF h = "listed" THEN term_list ELSE Reverse(term_list)

\* ---------------------------------------------------------------- analyzer

\* the loop of _find_terms without the containment test: every term the text
\* contains is kept
FindLoopAll(lowered, terms, k, found) ==
    found \o SelectSeq(SubSeq(terms, k, Len(terms)), LAMBDA term : Contains(lowered, term))

RECURSIVE FindLoop(_, _, _, _)
FindLoop(lowered, terms, k, found) ==
    IF k > Len(terms) THEN found
    ELSE LET term == terms[k]
         IN  IF Contains(lowered, term)
             THEN IF \E e \in 1..Len(found) : Contains(found[e], term)
                  THEN FindLoop(lowered, terms, k + 1, found)
                  ELSE FindLoop(lowered, terms, k + 1, Append(found, term))
             ELSE FindLoop(lowered, terms, k + 1, found)

_find_terms(text, term_list, h) ==
    sorted(FindLoop(Lower(text), SortByLenDesc(SetOrder(term_list, h)), 1, <<>>))

RECURSIVE NormalizeLoop(_, _, _)
NormalizeLoop(terms, k, normalized) ==
    IF k > Len(terms) THEN normalized
    ELSE LET term == IF terms[k] = "help me with" THEN "help" ELSE terms[k]
         IN  IF term \notin Range(normalized)
             THEN NormalizeLoop(terms, k + 1, Append(normalized, term))
             ELSE NormalizeLoop(terms, k + 1, normalized)

_normalize_terms(terms) == NormalizeLoop(terms, 1, <<>>)

Pronouns == {"it", "this", "that", "they"}
LinkingVerbs == {"is", "are", "was", "were", "should", "must", "can", "will", "need", "needs"}

\* the ends (index after the last character) of the matches of
\* \b(?:it|this|that|they)\s+(?:is|...|needs)\b that start at i
DanglingEnds(s, i) ==
    IF ~WordBoundary(s, i) THEN {}
    ELSE LET found == {p \in Pronouns : MatchAt(s, p, i)}
         IN  UNION {LET ws == i + Len(p)
                        j == RunEnd(s, ws, SpaceChars) + 1
                    IN  IF j = ws THEN {}
                        ELSE {j + Len(v) : v \in {v \in LinkingVerbs :
                                 MatchAt(s, v, j) /\ WordBoundary(s, j + Len(v))}}
                    : p \in found}

\* len(re.findall(...)) from index i on: starts holds the indices where a match
\* starts; the matches are taken left to right, without overlap
RECURSIVE CountFrom(_, _, _)
CountFrom(s, starts, i) ==
    IF \A k \in starts : k < i THEN 0
    ELSE 1 + CountFrom(s, starts, SetMin(DanglingEnds(s, SetMin({k \in starts : k >= i}))))

_count_dangling_pronouns(text) ==
    CountFrom(Lower(text), {i \in 1..Len(text) : DanglingEnds(Lower(text), i) # {}}, 1)

CheckKeys ==
    <<"has_role", "has_task", "has_inputs", "has_constraints", "has_format",
      "has_examples", "has_steps", "has_success_criteria">>

TrueChecks(checks) == {k \in Range(CheckKeys) : checks[k]}

\* _calculate_score with the clamp left out: base - penalty as it comes
ScoreUnclamped(checks, ambiguous_terms, vague_quantifiers, dangling_pronouns) ==
    Cardinality(TrueChecks(checks)) * 10
    - (5 * Len(ambiguous_terms) + 2 * Len(vague_quantifiers) + 3 * dangling_pronouns)

_calculate_score(checks, ambiguous_terms, vague_quantifiers, dangling_pronouns) ==
    LET base == Cardinality(TrueChecks(checks)) * 10
        penalty == 5 * Len(ambiguous_terms) + 2 * Len(vague_quantifiers)
                   + 3 * dangling_pronouns
        score == base - penalty
    IN  Max(0, Min(100, score))

missing_messages ==
    [has_role |-> "Add a clear role statement such as 'You are a specific type of expert.'",
     has_task |-> "Start with an imperative task that describes the expected action.",
     has_inputs |-> "Reference the inputs or source material the assistant should rely on.",
     has_constraints |-> "List numeric or explicit constraints to narrow the solution space.",
     has_format |-> "Specify the output format (tables, bullets, JSON, etc.).",
     has_examples |-> "Provide concrete examples to anchor expectations.",
     has_steps |-> "Describe the process or steps the assistant should follow.",
     has_success_criteria |-> "Define what success looks like or how the result will be evaluated."]

DanglingNote == "Resolve dangling pronouns (it/this/that/they) by naming the referent."
FallbackNote == "Prompt already covers the fundamentals; refine tone or examples as needed."

\* sep.join(items)
RECURSIVE Join(_, _)
Join(sep, items) ==
    IF Len(items) = 0 THEN ""
    ELSE IF Len(items) = 1 THEN items[1]
    ELSE items[1] \o sep \o Join(sep, Tail(items))

AmbiguousNote(ambiguous_terms) ==
    "Clarify or replace ambiguous terms: " \o Join(", ", sorted(ambiguous_terms)) \o "."

VagueNote(vague_quantifiers) ==
    "Quantify vague language (specify counts, ranges, or timeframes) for: "
    \o Join(", ", sorted(vague_quantifiers)) \o "."

\* _build_notes with the summaries put before the messages of the missing checks
NotesSummariesFirst(checks, ambiguous_terms, vague_quantifiers, dangling_pronouns) ==
    (IF ambiguous_terms # <<>> THEN <<AmbiguousNote(ambiguous_terms)>> ELSE <<>>)
    \o (IF vague_quantifiers # <<>> THEN <<VagueNote(vague_quantifiers)>> ELSE <<>>)
    \o (IF dangling_pronouns # 0 THEN <<DanglingNote>> ELSE <<>>)
    \o [i \in 1..Len(SelectSeq(CheckKeys, LAMBDA key : ~checks[key])) |->
          missing_messages[SelectSeq(CheckKeys, LAMBDA key : ~checks[key])[i]]]

\* _build_notes with the fallback note appended whatever the list holds
NotesFallbackAlways(checks, ambiguous_terms, vague_quantifiers, dangling_pronouns) ==
    [i \in 1..Len(SelectSeq(CheckKeys, LAMBDA key : ~checks[key])) |->
        missing_messages[SelectSeq(CheckKeys, LAMBDA key : ~checks[key])[i]]]
    \o (IF ambiguous_terms # <<>> THEN <<AmbiguousNote(ambiguous_terms)>> ELSE <<>>)
    \o (IF vague_quantifiers # <<>> THEN <<VagueNote(vague_quantifiers)>> ELSE <<>>)
    \o (IF dangling_pronouns # 0 THEN <<DanglingNote>> ELSE <<>>)
    \o <<FallbackNote>>

_build_notes(checks, ambiguous_terms, vague_quantifiers, dangling_pronouns) ==
    LET missing == SelectSeq(CheckKeys, LAMBDA key : ~checks[key])
        n1 == [i \in 1..Len(missing) |-> missing_messages[missing[i]]]
        n2 == IF ambiguous_terms # <<>> THEN Append(n1, AmbiguousNote(ambiguous_terms)) ELSE n1
        n3 == IF vague_quantifiers # <<>> THEN Append(n2, VagueNote(vague_quantifiers)) ELSE n2
        n4 == IF dangling_pronouns # 0 THEN Append(n3, DanglingNote) ELSE n3
    IN  IF n4 = <<>> THEN <<FallbackNote>> ELSE n4

\* analyze_prompt(text); h is the hash order of the process
analyze_prompt(text, h) ==
    LET checks(source) ==
            [has_role |-> ROLE_PATTERN(source),
             has_task |-> TASK_PATTERN(source),
             has_inputs |-> INPUT_PATTERN(source),
             has_constraints |-> _has_constraints(source),
             has_format |-> FORMAT_PATTERN(source),
             has_examples |-> EXAMPLE_PATTERN(source),
             has_steps |-> STEPS_PATTERN(source),
             has_success_criteria |-> SUCCESS_PATTERN(source)]
        Result(checks_, ambiguous_terms, vague_quantifiers, dangling_pronouns) ==
            [checks |-> checks_,
             flags |-> [ambiguous_terms |-> ambiguous_terms,
                        vague_quantifiers |-> vague_quantifiers,
                        dangling_pronouns |-> dangling_pronouns],
             score |-> _calculate_score(checks_, ambiguous_terms, vague_quantifiers,
                                        dangling_pronouns),
             notes |-> _build_notes(checks_, ambiguous_terms, vague_quantifiers,
                                    dangling_pronouns)]
        FromSource(source) ==
            Result(checks(source),
                   _normalize_terms(_find_terms(source, AMBIGUOUS_TERMS, h)),
                   _find_terms(source, VAGUE_QUANTIFIERS, h),
                   _count_dangling_pronouns(source))
    IN  FromSource(IF text = NoneStr THEN "" ELSE text)


\* ---------------------------------------------------------------- rewriter

AMBIGUOUS_REPLACEMENTS ==
    [t \in {"help me with", "help", "assist", "optimize", "improve", "better",
            "marketing plan", "strategy", "user friendly", "modern"} |->
        CASE t = "help me with" -> "create"
          [] t = "help" -> "deliver"
          [] t = "assist" -> "provide"
          [] t = "optimize" -> "fine-tune"
          [] t = "improve" -> "strengthen"
          [] t = "better" -> "enhance"
          [] t = "marketing plan" -> "go-to-market roadmap"
          [] t = "strategy" -> "action blueprint"
          [] t = "user friendly" -> "accessible for end users"
          [] t = "modern" -> "contemporary"]

STOPWORDS ==
    {"the", "a", "an", "and", "or", "of", "for", "with", "within", "on", "in", "to", "into",
     "me", "my", "our", "your", "their", "this", "that", "these", "those", "about", "at",
     "by", "from", "as", "it", "is", "are", "be", "need", "needs", "needed", "please",
     "would", "could", "should", "can", "we", "i"}

AMBIGUOUS_SET == {Lower(t) : t \in Range(AMBIGUOUS_TERMS)}
VAGUE_SET == {Lower(t) : t \in Range(VAGUE_QUANTIFIERS)}

\* [a-zA-Z] and [a-zA-Z\-]
TokenChars == Letters \cup {"-"}

\* re.findall(r"[a-zA-Z][a-zA-Z\-]+", s): left to right, greedy, without overlap
RECURSIVE Tokens(_, _)
Tokens(s, i) ==
    LET starts == {k \in i..(Len(s) - 1) : Ch(s, k) \in Letters /\ Ch(s, k + 1) \in TokenChars}
        From(k) == <<SubSeq(s, k, RunEnd(s, k + 1, TokenChars))>>
                   \o Tokens(s, RunEnd(s, k + 1, TokenChars) + 1)
    IN  IF starts = {} THEN <<>> ELSE From(SetMin(starts))

\* the keys of Counter(filtered), in the order of first occurrence
RECURSIVE FirstSeen(_, _, _)
FirstSeen(seq, k, seen) ==
    IF k > Len(seq) THEN seen
    ELSE IF seq[k] \in Range(seen) THEN FirstSeen(seq, k + 1, seen)
    ELSE FirstSeen(seq, k + 1, Append(seen, seq[k]))

CountOf(seq, w) == Cardinality({k \in 1..Len(seq) : seq[k] = w})

\* Counter.most_common: by count, largest first; words of equal count keep the
\* order of first occurrence
RECURSIVE ByCountDesc(_, _, _)
ByCountDesc(words, filtered, n) ==
    IF n = 0 THEN <<>>
    ELSE SelectSeq(words, LAMBDA w : CountOf(filtered, w) = n)
         \o ByCountDesc(words, filtered, n - 1)

most_common(filtered, limit) ==
    LET Top(ranked) == SubSeq(ranked, 1, Min(limit, Len(ranked)))
    IN  Top(ByCountDesc(FirstSeen(filtered, 1, <<>>), filtered, Len(filtered)))

\* the first limit words in the order of first occurrence, whatever their counts
KeywordsUnranked(text, limit) ==
    LET Filtered(tokens) == SelectSeq(tokens, LAMBDA token :
                                /\ token \notin STOPWORDS
                                /\ token \notin AMBIGUOUS_SET
                                /\ token \notin VAGUE_SET
                                /\ Len(token) > 2)
        Top(words) == SubSeq(words, 1, Min(limit, Len(words)))
    IN  Top(FirstSeen(Filtered(Tokens(Lower(text), 1)), 1, <<>>))

_extract_keywords(text, limit) ==
    LET Filtered(tokens) == SelectSeq(tokens, LAMBDA token :
                                /\ token \notin STOPWORDS
                                /\ token \notin AMBIGUOUS_SET
                                /\ token \notin VAGUE_SET
                                /\ Len(token) > 2)
    IN  most_common(Filtered(Tokens(Lower(text), 1)), limit)

_build_focus_phrase(keywords) ==
    IF keywords = <<>> THEN "project"
    ELSE IF "startup" \in Range(keywords) /\ "marketing" \in Range(keywords)
         THEN "startup marketing initiative"
    ELSE IF Len(keywords) = 1 THEN keywords[1]
    ELSE keywords[1] \o " " \o keywords[2]

_build_audience_phrase(keywords) ==
    IF "startup" \in Range(keywords) THEN "early-stage startup team"
    ELSE IF "students" \in Range(keywords) THEN "student audience"
    ELSE IF "executive" \in Range(keywords) \/ "leadership" \in Range(keywords)
         THEN "executive stakeholders"
    ELSE IF keywords # <<>> THEN "stakeholders focused on " \o keywords[1]
    ELSE "target audience"

_build_role_line(keywords) ==
    LET K == Range(keywords)
    IN  IF "marketing" \in K
        THEN "You are a marketing strategist specializing in go-to-market execution for startups."
        ELSE IF "product" \in K \/ "design" \in K
        THEN "You are a product discovery lead who converts fuzzy requests into actionable briefs."
        ELSE IF "sales" \in K
        THEN "You are a revenue operations advisor aligned with data-backed sales planning."
        ELSE IF "content" \in K \/ "writing" \in K
        THEN "You are an editorial architect who crafts structured content playbooks."
        ELSE IF "analysis" \in K \/ "analytics" \in K
        THEN "You are a data insights consultant focusing on evidence-based recommendations."
        ELSE IF "engineering" \in K \/ "software" \in K
        THEN "You are a delivery-focused engineering lead who defines crisp build briefs."
        ELSE "You are a clarity coach who turns goals into precise, testable instructions."

_build_task_line(focus_phrase) ==
    "Construct a detailed go-to-market roadmap for the " \o focus_phrase
    \o ", highlighting decisions, rationales, and metrics."

\* the rest of re.sub from index i on: starts holds the indices where a match starts,
\* End(k) is the last index of the match that starts at k; matches are taken left to
\* right and do not overlap
RECURSIVE Splice(_, _, _, _, _)
Splice(s, starts, ends, replacement, i) ==
    LET rest == {k \in starts : k >= i}
    IN  IF rest = {} THEN SubSeq(s, i, Len(s))
        ELSE LET k == CHOOSE k \in rest : \A j \in rest : k <= j
             IN  SubSeq(s, i, k - 1) \o replacement
                 \o Splice(s, starts, ends, replacement, ends[k] + 1)

\* re.sub(re.escape(term), replacement, s, flags=re.IGNORECASE)
SubLit(s, term, replacement) ==
    LET Starts == {k \in 1..(Len(s) - Len(term) + 1) :
                      /\ LowerCh(Ch(s, k)) = Ch(term, 1)
                      /\ Lower(SubSeq(s, k, k + Len(term) - 1)) = term}
        Sub(starts) == Splice(s, starts, [k \in starts |-> k + Len(term) - 1], replacement, 1)
    IN  Sub(Starts)

\* The four whitespace patterns. MatchEnd gives the index of the last character
\* of the match that starts at k, or 0 when none starts there.
\*   "\s+"   a run of whitespace
\*   "\s+\n" whitespace up to the last newline of the run, at least one before it
\*   "\n\s+" a newline and the whitespace after it
\*   " {2,}" two or more spaces
MatchEnd(pattern, s, k) ==
    CASE pattern = "\\s+" ->
            IF Ch(s, k) \in SpaceChars THEN RunEnd(s, k, SpaceChars) ELSE 0
      [] pattern = "\\s+\\n" ->
            IF Ch(s, k) \in SpaceChars
            THEN LET e == RunEnd(s, k, SpaceChars)
                     nl == {j \in (k + 1)..e : Ch(s, j) = "\n"}
                 IN  IF nl = {} THEN 0 ELSE CHOOSE j \in nl : \A m \in nl : m <= j
            ELSE 0
      [] pattern = "\\n\\s+" ->
            IF Ch(s, k) = "\n" /\ k < Len(s) /\ Ch(s, k + 1) \in SpaceChars
            THEN RunEnd(s, k + 1, SpaceChars)
            ELSE 0
      [] pattern = " {2,}" ->
            IF Ch(s, k) = " " /\ k < Len(s) /\ Ch(s, k + 1) = " "
            THEN RunEnd(s, k, {" "})
            ELSE 0

\* re.sub(pattern, replacement, s)
SubPat(pattern, replacement, s) ==
    LET Sub(starts) == Splice(s, starts, [k \in starts |-> MatchEnd(pattern, s, k)],
                              replacement, 1)
    IN  Sub({k \in 1..Len(s) : MatchEnd(pattern, s, k) > 0})

RECURSIVE ReplaceLoop(_, _, _)
ReplaceLoop(result, terms, k) ==
    IF k > Len(terms) THEN result
    ELSE LET replacement(term) == IF term \in DOMAIN AMBIGUOUS_REPLACEMENTS
                                  THEN AMBIGUOUS_REPLACEMENTS[term] ELSE ""
         \* result = re.sub(...) is evaluated before the next iteration, as in the
         \* loop of the code
         IN  CHOOSE out \in {ReplaceLoop(replaced, terms, k + 1) :
                                replaced \in {SubLit(result, terms[k], replacement(terms[k]))}} :
                        TRUE

_replace_ambiguous_terms(text) ==
    Strip(SubPat(" {2,}", " ",
            SubPat("\\n\\s+", "\n",
              SubPat("\\s+\\n", "\n",
                ReplaceLoop(text, SortByLenDesc(AMBIGUOUS_TERMS), 1)))))

_summarize_source(source) ==
    IF source = "" THEN "No original request provided."
    ELSE LET Cut(cleaned) == IF Len(cleaned) <= 140 THEN cleaned
                              ELSE SubSeq(cleaned, 1, 137) \o "..."
         IN  Cut(_replace_ambiguous_terms(SubPat("\\s+", " ", Strip(source))))

_build_inputs_section(focus_phrase, audience_phrase, source) ==
    "Inputs (brief):\n"
    \o Join("\n", <<"- Primary focus: " \o focus_phrase \o ".",
                    "- Audience/context: " \o audience_phrase \o ".",
                    "- Source request recap: " \o _summarize_source(source)>>)

\* U+2013 EN DASH, one character that is neither \w nor \s
EnDash == "~"

_build_constraints_section ==
    "Constraints:\n"
    \o Join("\n", <<"- Highlight exactly 3 priority initiatives with owners.",
                    "- Reference a budget range of $5,000" \o EnDash \o "$15,000 USD.",
                    "- Assume a 30-day rollout timeline with weekly checkpoints.">>)

_build_format_section ==
    "Output Format:\n"
    \o Join("\n", <<"- Return a markdown table with columns: Step, Owner, Channel, Rationale.",
                    "- Follow with bullet points covering risks, assumptions, and next actions.",
                    "- End with a short paragraph summarizing success metrics.">>)

_build_steps_section(focus_phrase) ==
    "Steps:\n"
    \o Join("\n", <<"1. Clarify the audience and objectives for the " \o focus_phrase \o ".",
                    "2. Audit existing assets and gaps using available inputs.",
                    "3. Prioritize tactics against budget, timeline, and impact.",
                    "4. Map messaging, channels, and ownership into the requested format.",
                    "5. Define measurable KPIs and validation steps before concluding.">>)

_build_success_section ==
    "Success Criteria:\n"
    \o Join("\n", <<"- Recommendations align with the stated constraints and audience.",
                    "- Output matches the markdown table and bullet list specification.",
                    "- KPIs include clear numeric targets and monitoring cadence.">>)

_build_refusal_section ==
    "Refusal Boundaries:\n"
    \o Join("\n", <<"- Decline instructions that require unethical tactics or misuse of data.",
                    "- Escalate if the request involves legal, medical, or financial compliance issues outside scope.">>)

KeywordLimit == 6

\* rewrite_prompt after its guard: analysis is not read
RewriteTemplate(text) ==
    LET Sections(source, keywords, focus_phrase, audience_phrase) ==
            <<"Role:\n" \o _build_role_line(keywords),
              "Task:\n" \o _build_task_line(focus_phrase),
              _build_inputs_section(focus_phrase, audience_phrase, source),
              _build_constraints_section,
              _build_format_section,
              _build_steps_section(focus_phrase),
              _build_success_section,
              _build_refusal_section>>
        Rewritten(source, keywords) ==
            Strip(Join("\n\n", Sections(source, keywords, _build_focus_phrase(keywords),
                                         _build_audience_phrase(keywords))))
        FromSource(source) == Rewritten(source, _extract_keywords(source, KeywordLimit))
    IN  _replace_ambiguous_terms(FromSource(IF text = NoneStr THEN "" ELSE text))

\* rewrite_prompt reading the analysis: a text in which a role was found is
\* handed back as it is
RewriteReadingAnalysis(analysis, text) ==
    IF analysis = None
    THEN [raised |-> "ValueError: analysis data is required for rewrite", value |-> NoneStr]
    ELSE IF analysis.checks.has_role THEN [raised |-> "", value |-> text]
    ELSE [raised |-> "", value |-> RewriteTemplate(text)]

\* rewrite_prompt without its guard: the template is filled whatever analysis is
RewriteUnguarded(analysis, text) == [raised |-> "", value |-> RewriteTemplate(text)]

\* rewrite_prompt(analysis, text): [raised |-> the exception or "", value |-> the str]
rewrite_prompt(analysis, text) ==
    IF analysis = None
    THEN [raised |-> "ValueError: analysis data is required for rewrite", value |-> NoneStr]
    ELSE [raised |-> "", value |-> RewriteTemplate(text)]


\* ---------------------------------------------------------- validation gate

\* A value decoded by json.loads: [t |-> its Python type, v |-> its value]. A dict
\* is a record of such values; a key the dict lacks is not in its DOMAIN.
JBool(b) == [t |-> "bool", v |-> b]
JInt(n) == [t |-> "int", v |-> n]
JStr(str) == [t |-> "str", v |-> str]
JList(items) == [t |-> "list", v |-> items]
JDict(fields) == [t |-> "dict", v |-> fields]

Invalid == [ok |-> FALSE]
Valid(value) == [ok |-> TRUE, v |-> value]

BoolWords ==
    [w \in {"0", "off", "f", "false", "n", "no", "1", "on", "t", "true", "y", "yes"} |->
        w \in {"1", "on", "t", "true", "y", "yes"}]

\* a field declared bool: a bool, the integers 0 and 1, and the str values pydantic
\* reads as a bool are accepted
BoolField(j) ==
    IF j.t = "bool" THEN Valid(j.v)
    ELSE IF j.t = "int" /\ j.v \in {0, 1} THEN Valid(j.v = 1)
    ELSE IF j.t = "str" /\ Lower(j.v) \in DOMAIN BoolWords THEN Valid(BoolWords[Lower(j.v)])
    ELSE Invalid

DigitValue == [c \in Digits |-> (CHOOSE i \in 1..10 : Ch("0123456789", i) = c) - 1]

RECURSIVE ParseDigits(_, _)
ParseDigits(str, acc) ==
    IF Len(str) = 0 THEN acc
    ELSE ParseDigits(SubSeq(str, 2, Len(str)), 10 * acc + DigitValue[Ch(str, 1)])

\* a field declared int: an int is accepted, and so are a bool and a str of decimal
\* digits, which pydantic converts
IntField(j) ==
    IF j.t = "int" THEN Valid(j.v)
    ELSE IF j.t = "bool" THEN Valid(IF j.v THEN 1 ELSE 0)
    ELSE IF j.t = "str" /\ Len(j.v) > 0 /\ AllIn(j.v, 1, Len(j.v), Digits)
         THEN Valid(ParseDigits(j.v, 0))
    ELSE Invalid

\* a field declared List[str]
StrListField(j) ==
    IF j.t = "list" /\ \A i \in 1..Len(j.v) : j.v[i].t = "str"
    THEN Valid([i \in 1..Len(j.v) |-> j.v[i].v])
    ELSE Invalid

Has(j, key) == j.t = "dict" /\ key \in DOMAIN j.v

\* class Checks(BaseModel)
Checks(j) ==
    IF /\ \A key \in Range(CheckKeys) : Has(j, key)
       /\ \A key \in Range(CheckKeys) : BoolField(j.v[key]).ok
    THEN Valid([key \in Range(CheckKeys) |-> BoolField(j.v[key]).v])
    ELSE Invalid

\* class Flags(BaseModel)
Flags(j) ==
    IF /\ Has(j, "ambiguous_terms") /\ Has(j, "vague_quantifiers")
       /\ Has(j, "dangling_pronouns")
       /\ StrListField(j.v.ambiguous_terms).ok
       /\ StrListField(j.v.vague_quantifiers).ok
       /\ IntField(j.v.dangling_pronouns).ok
    THEN Valid([ambiguous_terms |-> StrListField(j.v.ambiguous_terms).v,
                vague_quantifiers |-> StrListField(j.v.vague_quantifiers).v,
                dangling_pronouns |-> IntField(j.v.dangling_pronouns).v])
    ELSE Invalid

\* class PromptAnalysis(BaseModel); keys the model does not declare are ignored
PromptAnalysis(j) ==
    IF /\ Has(j, "checks") /\ Has(j, "flags") /\ Has(j, "score") /\ Has(j, "notes")
       /\ Checks(j.v.checks).ok
       /\ Flags(j.v.flags).ok
       /\ IntField(j.v.score).ok
       /\ StrListField(j.v.notes).ok
    THEN Valid([checks |-> Checks(j.v.checks).v,
                flags |-> Flags(j.v.flags).v,
                score |-> IntField(j.v.score).v,
                notes |-> StrListField(j.v.notes).v])
    ELSE Invalid

\* _model_validate(data): the model, or None on ValidationError
_model_validate(data) ==
    LET Model(m) == IF m.ok THEN m.v ELSE None
    IN  Model(PromptAnalysis(data))

\* A dict object: ref tells one object from another (`is`), val is its content.
Object(ref, val) == [ref |-> ref, val |-> val]

\* validate_or_fallback(candidate, fallback): fallback is an object, and so is
\* what is returned: fallback itself, or the new dict data
validate_or_fallback(candidate, fallback) ==
    IF candidate = None THEN fallback
    ELSE LET Dump(model) == IF model = None THEN fallback ELSE Object("data", model)
         IN  Dump(_model_validate(candidate))


\* ------------------------------------------------------- remote capability

\* llm_analyze(text) in an environment env: whether a client is configured, how the
\* API call ends, and what json.loads makes of the content (None when it fails or
\* when the content is null)
llm_analyze(env) ==
    IF ~env.client THEN None
    ELSE IF env.api = "error" THEN None
    ELSE env.parsed

\* llm_rewrite(analysis, text): the stripped content, or None
llm_rewrite(env) ==
    IF ~env.client THEN NoneStr
    ELSE IF env.api = "error" THEN NoneStr
    ELSE IF env.content = NoneStr THEN NoneStr
    ELSE Strip(env.content)

\* The outcome of a call: the exception that left it ("" when none) and its value.
Returned(value) == [called |-> TRUE, raised |-> "", value |-> value]
Raising(exc) == [called |-> TRUE, raised |-> exc]
NotCalled == [called |-> FALSE]

\* ------------------------------------------------------------ /analyze

MAX_INPUT_CHARS == 2000

\* the analysis stage taking a remote analyzer that returns nothing for a failure
AnalysisStageStrict(text, h, loaded, aout) ==
    IF loaded /\ aout.raised = "" /\ aout.value # None
    THEN [analysis_result |-> validate_or_fallback(aout.value,
                                  Object("fallback_analysis", analyze_prompt(text, h))),
          analysis_error |-> NoneStr,
          used_llm |-> validate_or_fallback(aout.value,
                           Object("fallback_analysis", analyze_prompt(text, h))).ref = "data"]
    ELSE [analysis_result |-> Object("fallback_analysis", analyze_prompt(text, h)),
          analysis_error |-> IF ~loaded THEN NoneStr
                             ELSE IF aout.raised # "" THEN "LLM analysis error: " \o aout.raised
                             ELSE "LLM analysis error: empty response",
          used_llm |-> FALSE]

\* app.analyze, from the local analysis to the validation gate. loaded: the import
\* of llm_analyze and llm_rewrite succeeded; aout: the outcome of llm_analyze(text)
AnalysisStage(text, h, loaded, aout) ==
    LET Validated(fallback_analysis, analysis_result) ==
            [analysis_result |-> analysis_result, analysis_error |-> NoneStr,
             used_llm |-> aout.value # None
                          /\ analysis_result.ref # fallback_analysis.ref]
        Stage(fallback_analysis) ==
            IF ~loaded
            THEN [analysis_result |-> fallback_analysis, analysis_error |-> NoneStr,
                  used_llm |-> FALSE]
            ELSE IF aout.raised # ""
            THEN [analysis_result |-> fallback_analysis,
                  analysis_error |-> "LLM analysis error: " \o aout.raised,
                  used_llm |-> FALSE]
            ELSE Validated(fallback_analysis,
                           validate_or_fallback(aout.value, fallback_analysis))
    IN  Stage(Object("fallback_analysis", analyze_prompt(text, h)))

\* the rewrite stage without the local rewrite behind a remote rewriter that was asked
RewriteStageRemoteOnly(analysis_result, used_llm, loaded, rout, text) ==
    IF used_llm /\ loaded
    THEN IF rout.raised # ""
         THEN [rewrite_result |-> NoneStr, rewrite_error |-> "LLM rewrite error: " \o rout.raised]
         ELSE [rewrite_result |-> IF rout.value = "" THEN NoneStr ELSE rout.value,
               rewrite_error |-> NoneStr]
    ELSE [rewrite_result |-> rewrite_prompt(analysis_result.val, text).value,
          rewrite_error |-> NoneStr]

\* app.analyze, the rewrite; rout: the outcome of llm_rewrite(analysis_result, text)
RewriteStage(analysis_result, used_llm, loaded, rout, text) ==
    LET asked == used_llm /\ loaded
        llm_text == IF asked /\ rout.raised = "" THEN rout.value ELSE NoneStr
        llm_error == IF asked /\ rout.raised # ""
                     THEN "LLM rewrite error: " \o rout.raised ELSE NoneStr
    IN  IF llm_text # NoneStr /\ llm_text # ""
        THEN [rewrite_result |-> llm_text, rewrite_error |-> llm_error]
        ELSE LET Local(local) ==
                     IF local.raised # ""
                     THEN [rewrite_result |-> NoneStr,
                           rewrite_error |-> "Rewrite failed: " \o local.raised]
                     ELSE [rewrite_result |-> local.value, rewrite_error |-> llm_error]
             IN  Local(rewrite_prompt(analysis_result.val, text))

\* app.analyze: what is handed to the template
analyze(raw_text, h, loaded, aout, rout) ==
    LET trimmed == Len(raw_text) > MAX_INPUT_CHARS
        Render(text, a, r) ==
            [result |-> a.analysis_result,
             rewrite |-> r.rewrite_result,
             original_text |-> text,
             raw_input |-> raw_text,
             trimmed_message |-> IF trimmed THEN "Input trimmed to 2000 characters."
                                 ELSE NoneStr,
             analysis_error |-> a.analysis_error,
             rewrite_error |-> r.rewrite_error,
             used_llm |-> a.used_llm,
             diff_payload |-> [original |-> text,
                               rewrite |-> IF r.rewrite_result = NoneStr THEN ""
                                           ELSE r.rewrite_result]]
        Rewritten(text, a) ==
            Render(text, a, RewriteStage(a.analysis_result, a.used_llm, loaded, rout, text))
        Analyzed(text) == Rewritten(text, AnalysisStage(text, h, loaded, aout))
    IN  Analyzed(IF trimmed THEN SubSeq(raw_text, 1, MAX_INPUT_CHARS) ELSE raw_text)


\* ------------------------------------------------------------------ inputs

\* the texts made of at most n pieces
RECURSIVE Concats(_, _)
Concats(pieces, n) ==
    IF n = 0 THEN {""}
    ELSE LET shorter == Concats(pieces, n - 1)
         IN  shorter \cup {a \o p : a \in shorter, p \in pieces}

MaxPieces == 2
MaxRewritePieces == 1

Pieces ==
    {"Write a better strategy ",
     "given 3 steps for some example",
     "help",
     " me with",
     "some",
     "times ",
     "It is nice ",
     "success when they\n need",
     "Draft, act as reviewer: from budget, return json e.g. X, then acceptance."}

RewritePieces ==
    {"help me with a marketing plan for a small startup",
     "It is  nice\n\nto improve sales, sales  strategy ",
     " Write a design brief"}

\* s, n times over; by halves so that the recursion stays shallow
RECURSIVE Repeat(_, _)
Repeat(s, n) ==
    LET Twice(half) == half \o half
    IN  IF n = 0 THEN ""
        ELSE IF n % 2 = 0 THEN Twice(Repeat(s, n \div 2))
        ELSE s \o Repeat(s, n - 1)

\* source texts of rewrite_prompt that are longer than the recap, and texts in
\* which a vocabulary term comes about when another one is taken out
SourceTexts ==
    {Repeat("a", 200),
     "henicelp" \o Repeat("a", 192),
     "eanicesy"}

MaxKeywordPieces == 2

KeywordPieces ==
    {"startup startup marketing marketing marketing launch",
     " alpha beta gamma delta epsilon zeta eta theta ",
     " The nice some of Help it-is ab ",
     " theta zeta zeta ",
     " launch x1y2 re-do "}

KeywordTexts == Concats(KeywordPieces, MaxKeywordPieces)

\* analyze_prompt is also called with no text
AnalyzeTexts == Concats(Pieces, MaxPieces) \cup {NoneStr}
RewriteTexts == Concats(RewritePieces, MaxRewritePieces)

AllTrue == [key \in Range(CheckKeys) |-> JBool(TRUE)]

\* a candidate of the shape the remote analyzer is asked for
GoodCandidate ==
    JDict([checks |-> JDict(AllTrue),
           flags |-> JDict([ambiguous_terms |-> JList(<<JStr("help")>>),
                            vague_quantifiers |-> JList(<<>>),
                            dangling_pronouns |-> JInt(1)]),
           score |-> JInt(85),
           notes |-> JList(<<JStr("Name the audience.")>>)])

WithScore(j) == JDict([GoodCandidate.v EXCEPT !.score = j])

Without(j, key) == JDict([k \in DOMAIN j.v \ {key} |-> j.v[k]])

Candidates ==
    {GoodCandidate,
     WithScore(JStr("85")),
     WithScore(JStr("high")),
     WithScore(JInt(150)),
     WithScore(JInt(0 - 5)),
     WithScore(JBool(TRUE)) ,
     Without(GoodCandidate, "score"),
     Without(GoodCandidate, "notes"),
     JDict([GoodCandidate.v EXCEPT !.checks = JDict([AllTrue EXCEPT !.has_role = JStr("yes")])]),
     JDict([GoodCandidate.v EXCEPT !.checks = Without(JDict(AllTrue), "has_task")]),
     JDict([GoodCandidate.v EXCEPT !.flags.v.ambiguous_terms = JStr("help")]),
     JDict([k \in DOMAIN GoodCandidate.v \cup {"model"} |->
              IF k = "model" THEN JStr("gpt-4o-mini") ELSE GoodCandidate.v[k]]),
     JList(<<JStr("sorry")>>),
     JStr("I cannot analyze this.")}

\* the environments of llm_analyze, and what a call of it can end in
AnalyzerEnvs ==
    {[client |-> FALSE, api |-> "ok", parsed |-> None],
     [client |-> TRUE, api |-> "error", parsed |-> None],
     [client |-> TRUE, api |-> "ok", parsed |-> None]}
    \cup {[client |-> TRUE, api |-> "ok", parsed |-> c] :
            c \in {GoodCandidate, WithScore(JStr("85")), WithScore(JStr("high")),
                   WithScore(JInt(150)), Without(GoodCandidate, "notes")}}

AnalyzerOutcomes ==
    {Raising("connection reset")} \cup {Returned(llm_analyze(e)) : e \in AnalyzerEnvs}

RewriterEnvs ==
    {[client |-> FALSE, api |-> "ok", content |-> NoneStr],
     [client |-> TRUE, api |-> "error", content |-> NoneStr],
     [client |-> TRUE, api |-> "ok", content |-> NoneStr],
     [client |-> TRUE, api |-> "ok", content |-> " \n"],
     [client |-> TRUE, api |-> "ok", content |-> "Role:\nYou are a planner.\n"]}

RewriterOutcomes ==
    {Raising("timed out")} \cup {Returned(llm_rewrite(e)) : e \in RewriterEnvs}

\* an analysis that is not the one of the text at hand
OtherAnalysis == analyze_prompt("You are given 3 examples; help", "listed")

\* ------------------------------------------------------------- the program

VARIABLES
    hashOrder,  \* the iteration order of sets of str in this process
    op,         \* the call that was made last: "idle" when none is on display
    text,       \* its text
    arg,        \* the analysis handed to rewrite_prompt
    analysis,   \* what analyze_prompt returned
    rewritten,  \* what rewrite_prompt did: [raised, value]
    first,      \* when rewrite_prompt was called twice with this text: the analysis
                \* handed to the first call and what that call did, [arg, rewritten]
    gate,       \* validate_or_fallback: [candidate, fallback, out]
    remote,     \* /analyze: [loaded, aout, rout]
    response,   \* /analyze: what the handler hands to the template
    keywords    \* what _extract_keywords returned

vars == <<hashOrder, op, text, arg, analysis, rewritten, first, gate, remote, response,
          keywords>>

Clear ==
    /\ text = NoneStr /\ arg = None /\ analysis = None /\ rewritten = None
    /\ first = None /\ gate = None /\ remote = None /\ response = None
    /\ keywords = None

Init == hashOrder \in HashOrders /\ op = "idle" /\ Clear

\* analyze_prompt(t)
Analyze ==
    /\ op = "idle"
    /\ \E t \in AnalyzeTexts :
          /\ text' = t
          /\ analysis' = analyze_prompt(t, hashOrder)
    /\ op' = "analyze"
    /\ UNCHANGED <<hashOrder, arg, rewritten, first, gate, remote, response, keywords>>

\* the analyses a caller hands to rewrite_prompt for the text t
RewriteArgs(t, h) == {None, analyze_prompt(t, h), OtherAnalysis}

\* rewrite_prompt(a, t)
Rewrite ==
    /\ op = "idle"
    /\ \E t \in RewriteTexts \cup SourceTexts \cup {NoneStr} : \E a \in RewriteArgs(t, hashOrder) :
          /\ text' = t
          /\ arg' = a
          /\ rewritten' = rewrite_prompt(a, t)
    /\ op' = "rewrite"
    /\ UNCHANGED <<hashOrder, analysis, first, gate, remote, response, keywords>>

\* a second call of rewrite_prompt with the same text
RewriteAgain ==
    /\ op = "rewrite"
    /\ first = None
    /\ \E a \in RewriteArgs(text, hashOrder) :
          /\ arg' = a
          /\ rewritten' = rewrite_prompt(a, text)
    /\ first' = [arg |-> arg, rewritten |-> rewritten]
    /\ UNCHANGED <<hashOrder, op, text, analysis, gate, remote, response, keywords>>

\* _extract_keywords(t, limit=6)
Keywords ==
    /\ op = "idle"
    /\ \E t \in KeywordTexts :
          /\ text' = t
          /\ keywords' = _extract_keywords(t, KeywordLimit)
    /\ op' = "keywords"
    /\ UNCHANGED <<hashOrder, arg, analysis, rewritten, first, gate, remote, response>>

\* validate_or_fallback(c, local) with the local analysis of t
Gate ==
    /\ op = "idle"
    /\ \E t \in RewriteTexts : \E c \in Candidates \cup {None} :
       \E local \in {Object("fallback_analysis", analyze_prompt(t, hashOrder))} :
          /\ text' = t
          /\ gate' = [candidate |-> c, fallback |-> local,
                      out |-> validate_or_fallback(c, local)]
    /\ op' = "gate"
    /\ UNCHANGED <<hashOrder, arg, analysis, rewritten, first, remote, response, keywords>>

\* POST /analyze. The remote analyzer is called when it is loaded, the remote
\* rewriter when it is loaded and the remote analysis was used.
Request ==
    /\ op = "idle"
    /\ \E raw \in RewriteTexts : \E loaded \in BOOLEAN :
       \E aout \in (IF loaded THEN AnalyzerOutcomes ELSE {NotCalled}) :
       \E rout \in (IF loaded /\ AnalysisStage(raw, hashOrder, loaded, aout).used_llm
                    THEN RewriterOutcomes ELSE {NotCalled}) :
          /\ text' = raw
          /\ remote' = [loaded |-> loaded, aout |-> aout, rout |-> rout]
          /\ response' = analyze(raw, hashOrder, loaded, aout, rout)
    /\ op' = "request"
    /\ UNCHANGED <<hashOrder, arg, analysis, rewritten, first, gate, keywords>>

\* the call is over
Return ==
    /\ op # "idle"
    /\ op' = "idle"
    /\ text' = NoneStr /\ arg' = None /\ analysis' = None /\ rewritten' = None
    /\ first' = None /\ gate' = None /\ remote' = None /\ response' = None
    /\ keywords' = None
    /\ UNCHANGED hashOrder

Next == Analyze \/ Rewrite \/ RewriteAgain \/ Keywords \/ Gate \/ Request \/ Return

Spec == Init /\ [][Next]_vars

\* --------------------------------------------------------------- properties

\* C1: for every text, the score analyze_prompt returns is 10 times the number of
\* true checks minus (5 per ambiguous term + 2 per vague quantifier + 3 per dangling
\* pronoun), the counts being those of the returned flags, brought into 0..100:
\* a negative value is reported as 0, one above 100 as 100.
C1_ScoreFormula ==
    op = "analyze" =>
        LET trueChecks == {key \in DOMAIN analysis.checks : analysis.checks[key]}
            raw == 10 * Cardinality(trueChecks)
                   - (5 * Len(analysis.flags.ambiguous_terms)
                      + 2 * Len(analysis.flags.vague_quantifiers)
                      + 3 * analysis.flags.dangling_pronouns)
        IN  /\ analysis.score \in 0..100
            /\ raw < 0 => analysis.score = 0
            /\ raw > 100 => analysis.score = 100
            /\ raw \in 0..100 => analysis.score = raw

\* the example of the claim: 5 true checks, 2 ambiguous terms, 1 vague quantifier
\* and no dangling pronoun score 38
C1_Witness ==
    /\ op = "analyze"
    /\ Cardinality({key \in DOMAIN analysis.checks : analysis.checks[key]}) = 5
    /\ Len(analysis.flags.ambiguous_terms) = 2
    /\ Len(analysis.flags.vague_quantifiers) = 1
    /\ analysis.flags.dangling_pronouns = 0
    /\ analysis.score = 38

\* C2: rewrite_prompt called with no analysis (None) raises the ValueError that is
\* the InvalidArgument condition, for every text, and returns no string; called
\* with an analysis it does not raise.
C2_InvalidArgument ==
    op = "rewrite" =>
        /\ arg = None => /\ rewritten.raised = "ValueError: analysis data is required for rewrite"
                         /\ rewritten.value = NoneStr
        /\ arg # None => /\ rewritten.raised = ""
                         /\ rewritten.value # NoneStr

\* rewrite_prompt(None, text) was called with a text that is not empty
C2_Witness ==
    /\ op = "rewrite"
    /\ arg = None
    /\ text # NoneStr /\ Len(text) > 0
    /\ rewritten.raised # ""

StructurallyValid(j) ==
    /\ j.t = "dict"
    /\ {"checks", "flags", "score", "notes"} \subseteq DOMAIN j.v
    /\ j.v.checks.t = "dict"
    /\ Range(CheckKeys) \subseteq DOMAIN j.v.checks.v
    /\ \A key \in Range(CheckKeys) : j.v.checks.v[key].t = "bool"
    /\ j.v.flags.t = "dict"
    /\ {"ambiguous_terms", "vague_quantifiers", "dangling_pronouns"} \subseteq DOMAIN j.v.flags.v
    /\ \A key \in {"ambiguous_terms", "vague_quantifiers"} :
          /\ j.v.flags.v[key].t = "list"
          /\ \A i \in 1..Len(j.v.flags.v[key].v) : j.v.flags.v[key].v[i].t = "str"
    /\ j.v.flags.v.dangling_pronouns.t = "int"
    /\ j.v.score.t = "int"
    /\ j.v.notes.t = "list"
    /\ \A i \in 1..Len(j.v.notes.v) : j.v.notes.v[i].t = "str"

\* the fields of a structurally valid candidate
FieldsOf(j) ==
    [checks |-> [key \in Range(CheckKeys) |-> j.v.checks.v[key].v],
     flags |-> [ambiguous_terms |->
                    [i \in 1..Len(j.v.flags.v.ambiguous_terms.v) |->
                        j.v.flags.v.ambiguous_terms.v[i].v],
                vague_quantifiers |->
                    [i \in 1..Len(j.v.flags.v.vague_quantifiers.v) |->
                        j.v.flags.v.vague_quantifiers.v[i].v],
                dangling_pronouns |-> j.v.flags.v.dangling_pronouns.v],
     score |-> j.v.score.v,
     notes |-> [i \in 1..Len(j.v.notes.v) |-> j.v.notes.v[i].v]]

\* C4: validate_or_fallback(candidate, local) returns local itself, the same object,
\* when the candidate is absent or not structurally valid (a required field missing
\* or of the wrong primitive type), and the candidate's fields when it is
\* structurally valid.
C4_GateAsClaimed ==
    op = "gate" =>
        IF gate.candidate # None /\ StructurallyValid(gate.candidate)
        THEN gate.out.ref = "data" /\ gate.out.val = FieldsOf(gate.candidate)
        ELSE gate.out = gate.fallback

\* C5: for every text the /analyze handler answers the same (analysis, rewrite,
\* used_llm, notices) when llm_analyze and llm_rewrite are not loaded as when they
\* are loaded and return nothing.
C5_AbsentIsNothing ==
    op = "request" =>
        /\ ~remote.loaded
              => \A rout \in {NotCalled, Returned(NoneStr)} :
                    response = analyze(text, hashOrder, TRUE, Returned(None), rout)
        /\ remote.loaded /\ remote.aout.raised = "" /\ remote.aout.value = None
              => response = analyze(text, hashOrder, FALSE, NotCalled, NotCalled)

\* the remote analyzer was loaded and returned nothing, for a text that is not empty
C5_Witness ==
    /\ op = "request"
    /\ Len(text) > 0
    /\ remote.loaded /\ remote.aout.raised = "" /\ remote.aout.value = None
    /\ ~response.used_llm

\* C6: the analysis the /analyze handler presents has an integer score in 0..100,
\* be it the local analysis or a remote candidate the validation gate accepted.
C6_PresentedScoreInRange ==
    op = "request" => response.result.val.score \in 0..100

\* C7: the reported ambiguous_terms and vague_quantifiers hold no term twice and no
\* term that is a substring of another reported term; a vocabulary term is reported
\* unless it is absent from the text or inside a longer vocabulary term the text
\* contains; ambiguous_terms never holds "help me with", and a text whose only
\* vocabulary match is "help me with" reports exactly <<"help">>.
C7_TermLists ==
    op = "analyze" =>
        LET lowered == Lower(IF text = NoneStr THEN "" ELSE text)
            Apart(terms) ==
                \A i, j \in 1..Len(terms) : i # j => ~Contains(terms[i], terms[j])
            Kept(vocabulary) ==
                {t \in Range(vocabulary) :
                    /\ Contains(lowered, t)
                    /\ \A u \in Range(vocabulary) :
                          u # t /\ Contains(u, t) => ~Contains(lowered, u)}
            Normal(t) == IF t = "help me with" THEN "help" ELSE t
        IN  /\ Apart(analysis.flags.ambiguous_terms)
            /\ Apart(analysis.flags.vague_quantifiers)
            /\ Range(analysis.flags.vague_quantifiers) = Kept(VAGUE_QUANTIFIERS)
            /\ Range(analysis.flags.ambiguous_terms)
                  = {Normal(t) : t \in Kept(AMBIGUOUS_TERMS)}
            /\ "help me with" \notin Range(analysis.flags.ambiguous_terms)
            /\ (/\ Contains(lowered, "help me with")
                /\ \A t \in Range(AMBIGUOUS_TERMS) \ {"help me with", "help"} :
                      ~Contains(lowered, t))
                  => analysis.flags.ambiguous_terms = <<"help">>

\* the text is "help me with": its only vocabulary match is that term
C7_Witness ==
    /\ op = "analyze"
    /\ text = "help me with"
    /\ analysis.flags.ambiguous_terms = <<"help">>

\* C8: notes is never empty. It holds one fixed message per false check, in the
\* order the checks are declared, then the ambiguous-terms summary iff
\* ambiguous_terms is not empty, then the vague-quantifiers summary iff
\* vague_quantifiers is not empty, then the dangling-pronoun note iff the count is
\* positive. The fallback note is there iff none of these was produced, and it is
\* then the only note.
C8_NotesOrder ==
    op = "analyze" =>
        LET notes == analysis.notes
            FalseUpTo(p) == Cardinality({q \in 1..p : ~analysis.checks[CheckKeys[q]]})
            m == FalseUpTo(Len(CheckKeys))
            a == IF analysis.flags.ambiguous_terms # <<>> THEN 1 ELSE 0
            v == IF analysis.flags.vague_quantifiers # <<>> THEN 1 ELSE 0
            d == IF analysis.flags.dangling_pronouns > 0 THEN 1 ELSE 0
        IN  /\ Len(notes) >= 1
            /\ m + a + v + d = 0 <=> FallbackNote \in Range(notes)
            /\ FallbackNote \in Range(notes) => notes = <<FallbackNote>>
            /\ m + a + v + d > 0 =>
                  /\ Len(notes) = m + a + v + d
                  /\ \A p \in 1..Len(CheckKeys) :
                        ~analysis.checks[CheckKeys[p]]
                           => notes[FalseUpTo(p)] = missing_messages[CheckKeys[p]]
                  /\ a = 1 => notes[m + 1] = AmbiguousNote(analysis.flags.ambiguous_terms)
                  /\ v = 1 => notes[m + a + 1] = VagueNote(analysis.flags.vague_quantifiers)
                  /\ d = 1 => notes[m + a + v + 1] = DanglingNote

\* every check is true and nothing is flagged: the fallback note is the only note
C8_Witness ==
    /\ op = "analyze"
    /\ \A key \in Range(CheckKeys) : analysis.checks[key]
    /\ analysis.flags.ambiguous_terms = <<>>
    /\ analysis.flags.vague_quantifiers = <<>>
    /\ analysis.flags.dangling_pronouns = 0
    /\ analysis.notes = <<FallbackNote>>

\* C9: on the empty text, and on an absent text, analyze_prompt returns: all 8
\* checks false, both term lists empty, dangling_pronouns 0, score 0, and as notes
\* exactly the 8 messages of the missing checks, without the fallback note.
C9_EmptyText ==
    op = "analyze" /\ text \in {"", NoneStr} =>
        /\ DOMAIN analysis.checks = Range(CheckKeys)
        /\ Cardinality(DOMAIN analysis.checks) = 8
        /\ \A key \in DOMAIN analysis.checks : ~analysis.checks[key]
        /\ analysis.flags.ambiguous_terms = <<>>
        /\ analysis.flags.vague_quantifiers = <<>>
        /\ analysis.flags.dangling_pronouns = 0
        /\ analysis.score = 0
        /\ analysis.notes = [i \in 1..8 |-> missing_messages[CheckKeys[i]]]
        /\ FallbackNote \notin Range(analysis.notes)

\* analyze_prompt was called with the empty text
C9_Witness ==
    /\ op = "analyze"
    /\ text = ""
    /\ Len(analysis.notes) = 8

\* C10: what rewrite_prompt returns depends on the text alone: two calls with the
\* same text and two analyses, equal or not, neither of them None, return the same
\* string, character for character.
C10_TextAlone ==
    (op = "rewrite" /\ first # None) =>
        (first.arg # None /\ arg # None => rewritten = first.rewritten)

\* rewrite_prompt was called twice with one text and two different analyses
C10_Witness ==
    /\ op = "rewrite"
    /\ first # None
    /\ first.arg # None /\ arg # None /\ arg # first.arg
    /\ Len(text) > 0 /\ text # NoneStr
    /\ rewritten.raised = "" /\ Len(rewritten.value) > 0

\* C11: _extract_keywords returns at most 6 tokens of the lowered text, all
\* different, none of them a stop word, an ambiguous term, a vague quantifier or
\* of length <= 2; a token that occurs more often comes first, and of two tokens
\* that occur equally often the one met first in the text comes first; a
\* surviving token is left out only when 6 tokens that rank before it are
\* returned. "startup startup marketing marketing marketing launch" gives
\* <<"marketing", "startup", "launch">>.
C11_Keywords ==
    op = "keywords" =>
        LET tokens == Tokens(Lower(text), 1)
            Count(w) == Cardinality({k \in 1..Len(tokens) : tokens[k] = w})
            FirstAt(w) == SetMin({k \in 1..Len(tokens) : tokens[k] = w})
            Before(v, w) == Count(v) > Count(w) \/ (Count(v) = Count(w) /\ FirstAt(v) < FirstAt(w))
            Excluded(w) == w \in STOPWORDS \cup AMBIGUOUS_SET \cup VAGUE_SET \/ Len(w) <= 2
        IN  /\ Len(keywords) <= 6
            /\ \A i \in 1..Len(keywords) :
                  /\ keywords[i] \in Range(tokens)
                  /\ ~Excluded(keywords[i])
            /\ \A i, j \in 1..Len(keywords) : i < j => Before(keywords[i], keywords[j])
            /\ \A w \in Range(tokens) \ Range(keywords) :
                  Excluded(w) \/ (Len(keywords) = 6 /\ Before(keywords[6], w))
            /\ text = "startup startup marketing marketing marketing launch"
                  => keywords = <<"marketing", "startup", "launch">>

\* _extract_keywords was called with the example of the claim
C11_Witness ==
    /\ op = "keywords"
    /\ text = "startup startup marketing marketing marketing launch"
    /\ keywords = <<"marketing", "startup", "launch">>

\* the source request recap in a string rewrite_prompt returned: what follows the
\* label in its line, without the blank after the label
Recap(out) ==
    LET label == "- Source request recap:"
        From(at) == at + Len(label)
        UpTo(from) == IF \E k \in from..Len(out) : Ch(out, k) = "\n"
                      THEN SetMin({k \in from..Len(out) : Ch(out, k) = "\n"}) - 1
                      ELSE Len(out)
        Line(from) == LStrip(SubSeq(out, from, UpTo(from)))
    IN  Line(From(SetMin({k \in 1..Len(out) : MatchAt(out, label, k)})))

\* C12: in the string rewrite_prompt returns, the source request recap of the
\* Inputs section is at most 140 characters long for every source text, and for a
\* source text of 200 characters it is exactly 140 characters long and ends in
\* "...".
C12_RecapTruncated ==
    (op = "rewrite" /\ rewritten.raised = "") =>
        /\ Len(Recap(rewritten.value)) <= 140
        /\ Len(text) = 200 =>
              /\ Len(Recap(rewritten.value)) = 140
              /\ SubSeq(Recap(rewritten.value), 138, 140) = "..."

\* the first lines of the 8 sections, in the order of the template
SectionHeads ==
    <<"Role:", "Task:", "Inputs (brief):", "Constraints:", "Output Format:", "Steps:",
      "Success Criteria:", "Refusal Boundaries:">>

\* where the line `head` starts in out
HeadAt(out, head) ==
    {k \in 1..Len(out) : MatchAt(out, head \o "\n", k) /\ (k = 1 \/ Ch(out, k - 1) = "\n")}

\* out is the 8 sections in the order of the template, each one but the first
\* coming right after one `sep`
SectionsJoinedBy(out, sep) ==
    /\ \A i \in 1..8 : Cardinality(HeadAt(out, SectionHeads[i])) = 1
    /\ HeadAt(out, SectionHeads[1]) = {1}
    /\ \A i \in 2..8 : \A k \in HeadAt(out, SectionHeads[i]) :
          /\ \A j \in HeadAt(out, SectionHeads[i - 1]) : j < k
          /\ MatchAt(out, sep, k - Len(sep))
          /\ Ch(out, k - Len(sep) - 1) # "\n"

\* C13: for every text and every analysis that is not None, the string
\* rewrite_prompt returns is the 8 sections Role, Task, Inputs, Constraints, Output
\* Format, Steps, Success Criteria, Refusal Boundaries in this order, with a blank
\* line between one section and the next.
C13_BlankLineSections ==
    (op = "rewrite" /\ rewritten.raised = "") => SectionsJoinedBy(rewritten.value, "\n\n")

\* C14: for every text, the string rewrite_prompt returns contains no term of
\* AMBIGUOUS_TERMS, in whatever case, and _replace_ambiguous_terms applied to it
\* once more returns it unchanged.
C14_NoAmbiguousTermLeft ==
    (op = "rewrite" /\ rewritten.raised = "") =>
        /\ \A term \in Range(AMBIGUOUS_TERMS) : ~Contains(Lower(rewritten.value), term)
        /\ _replace_ambiguous_terms(rewritten.value) = rewritten.value

====
